---------------------------- MODULE Spec2Model ----------------------------
(***************************************************************************)
(* A model of language-salary.py: the paginated fetch loops of the two     *)
(* vacancy providers (download_vacancies_hh, download_vacancies_sj), the   *)
(* salary estimator (predict_salary and its two per-provider wrappers) and *)
(* the aggregation get_statistics.                                         *)
(*                                                                         *)
(* Python values are modelled as follows.  An optional value is a sequence *)
(* of length at most one: None is <<>> and the integer n is <<n>>.  A list *)
(* is a sequence.  A call that ends in an uncaught exception is a record   *)
(* whose field exc names the exception.                                    *)
(***************************************************************************)
EXTENDS Integers, Sequences, FiniteSets, TLC

VARIABLES
    fn,                \* the function under execution
    salary_from,       \* predict_salary: argument salary_from
    salary_to,         \* predict_salary: argument salary_to
    vacancy,           \* predict_rub_salary_hh / _sj: argument vacancy
    predicted,         \* the estimator's return value, once it returned
    predict_salaries,  \* get_statistics: argument predict_salaries
    statistics,        \* get_statistics: its outcome, once it ended
    provider,          \* the fetch running: "hh" or "sj"
    page,              \* fetch: local page
    number_of_pages,   \* download_vacancies_hh: local number_of_pages
    more_pages,        \* download_vacancies_sj: local more_pages
    vacancies,         \* fetch: local vacancies (the accumulator); also
                       \* get_statistics' argument vacancies
    pc,                \* position: "call" or "request" (running), "returned", "raised"
    raised,            \* the exception that left the function, if any
    requests,          \* every HTTP request issued so far, with its answer
    srv_pages,         \* the provider: how many pages the search holds
    srv_page_size,     \* the provider: how many items each held page has
    srv_kinds,         \* the provider: the kind of vacancy of the i-th item
                       \* of a page (see VacancyOf)
    faults,            \* how many requests the environment has failed so
                       \* far, where a specification limits them
    sj_secret_key,     \* os.environ['SJ_SECRET_KEY'] after load_dotenv():
                       \* None when the variable is not set
    main_pc,           \* main: "idle" (not running), "start", "fetch",
                       \* "done", "raised"
    lang,              \* main: index of the for loop's current language
    statistics_hh,     \* main: local statistics_hh
    statistics_sj,     \* main: local statistics_sj
    printed,           \* standard output: the tables printed so far
    fetches            \* the calls of download_vacancies_* so far, each as
                       \* <<provider, language>>

vars == <<fn, salary_from, salary_to, vacancy, predicted, predict_salaries,
          statistics, provider, page, number_of_pages, more_pages, vacancies,
          pc, raised, requests, srv_pages, srv_page_size, srv_kinds, faults,
          sj_secret_key, main_pc, lang, statistics_hh, statistics_sj, printed,
          fetches>>

\* The variables of main and of its environment, which the fetch loops, the
\* estimator and get_statistics do not write.
MainVars == <<srv_kinds, faults, sj_secret_key, main_pc, lang, statistics_hh,
              statistics_sj, printed, fetches>>

(***************************************************************************)
(* Bounds of the model.                                                    *)
(***************************************************************************)
MaxSalary == 6       \* salary bounds range over 0..MaxSalary (and 100, 200)
MaxLen == 5          \* longest estimate list given to get_statistics
MaxPages == 3        \* most pages a provider holds
MaxPageSize == 2     \* most items on one page
MaxRequests == 6     \* most HTTP requests of one fetch that are followed
MaxConnFailures == 2 \* most connection failures of a run of SpecLoop
NumLanguages == 2    \* main: how many languages of the list are followed
MaxFaults == 1       \* main: most failed requests of one run

(***************************************************************************)
(* Python values.                                                          *)
(***************************************************************************)
None == <<>>
Some(x) == <<x>>

\* Presence tested as `is not None` instead of by truthiness.
Truthy_IsNotNone(x) == x /= None

\* bool(x) of an optional integer: None and 0 are falsy.
Truthy(x) == x /= None /\ x[1] /= 0

RECURSIVE SumSeq(_)
SumSeq(s) == IF s = <<>> THEN 0 ELSE Head(s) + SumSeq(Tail(s))

\* [x for x in s if x]
RECURSIVE TruthyOnly(_)
TruthyOnly(s) ==
    IF s = <<>> THEN <<>>
    ELSE IF Truthy(Head(s)) THEN <<Head(s)>> \o TruthyOnly(Tail(s))
         ELSE TruthyOnly(Tail(s))

(***************************************************************************)
(* predict_salary.  The code multiplies by the floats 1.2 and 0.8 and      *)
(* truncates with int(); on non-negative integers below 3 000 000 that is  *)
(* the integer quotient of 12x by 10 and of 8y by 10 (checked exhaustively *)
(* against the interpreter), which is how it is computed here.             *)
(***************************************************************************)
CounterTrueTrue(x, y) == Some((x[1] + y[1]) \div 2)
\* The scaled figure rounded to the nearest integer instead of truncated.
CounterTrueFalse_Rounded(x, y) == Some((x[1] * 12 + 5) \div 10)

CounterTrueFalse(x, y) == Some((x[1] * 12) \div 10)
CounterFalseTrue(x, y) == Some((y[1] * 8) \div 10)
CounterFalseFalse(x, y) == None

predict_salary(from, to) ==
    CASE Truthy(from) /\ Truthy(to) -> CounterTrueTrue(from, to)
      [] Truthy(from) /\ ~Truthy(to) -> CounterTrueFalse(from, to)
      [] ~Truthy(from) /\ Truthy(to) -> CounterFalseTrue(from, to)
      [] ~Truthy(from) /\ ~Truthy(to) -> CounterFalseFalse(from, to)

(***************************************************************************)
(* The wrappers.  A vacancy is None or Some(record).  A provider A record  *)
(* has the field salary: None or Some([currency, from, to]).  A provider B *)
(* record has the fields currency, payment_from, payment_to.               *)
(***************************************************************************)
HH_RUBLE == "RUR"
SJ_RUBLE == "rub"

predict_rub_salary_hh(v) ==
    IF \/ v = None
       \/ v[1].salary = None
       \/ v[1].salary[1].currency /= HH_RUBLE
    THEN None
    ELSE predict_salary(v[1].salary[1].from, v[1].salary[1].to)

\* The provider B wrapper testing the currency against provider A's literal.
predict_rub_salary_sj_WrongLiteral(v) ==
    IF v = None \/ v[1].currency /= HH_RUBLE
    THEN None
    ELSE predict_salary(v[1].payment_from, v[1].payment_to)

predict_rub_salary_sj(v) ==
    IF v = None \/ v[1].currency /= SJ_RUBLE
    THEN None
    ELSE predict_salary(v[1].payment_from, v[1].payment_to)

(***************************************************************************)
(* get_statistics.  The comprehension keeps the truthy estimates; the      *)
(* floor division raises ZeroDivisionError when none is kept.              *)
(***************************************************************************)
NoRow == <<>>

\* The counts of the row in each other's place.
get_statistics_Swapped(language, vacs, preds) ==
    LET kept == TruthyOnly(preds)
    IN  IF Len(kept) = 0
        THEN [exc |-> "ZeroDivisionError", row |-> NoRow]
        ELSE [exc |-> "none",
              row |-> <<language, Len(kept), Len(vacs),
                        SumSeq([i \in 1..Len(kept) |-> kept[i][1]])
                            \div Len(kept)>>]

get_statistics(language, vacs, preds) ==
    LET kept == TruthyOnly(preds)
        vacancies_found == Len(vacs)
        vacancies_processed == Len(kept)
    IN  IF Len(kept) = 0
        THEN [exc |-> "ZeroDivisionError", row |-> NoRow]
        ELSE [exc |-> "none",
              row |-> <<language, vacancies_found, vacancies_processed,
                        SumSeq([i \in 1..Len(kept) |-> kept[i][1]])
                            \div Len(kept)>>]

(***************************************************************************)
(* The fetch loops.  The provider holds srv_pages pages (numbered from 0)  *)
(* of srv_page_size items each; the item i of page p is <<p, i>>, so that  *)
(* a missing or duplicated item shows in the result.  A page past the last *)
(* one answers with no items.  Provider A declares the page count in each  *)
(* answer, provider B says whether more pages follow.                      *)
(***************************************************************************)
PageItems(p) ==
    IF p < srv_pages THEN [i \in 1..srv_page_size |-> <<p, i>>] ELSE <<>>

HHBody(p) == [items |-> PageItems(p), pages |-> srv_pages]
SJBody(p) == [objects |-> PageItems(p), more |-> p + 1 < srv_pages]

\* The page's items assigned to the accumulator instead of appended.
Extend_Assign(acc, items) == items

\* main is not running: a single function is called on its own.
NoMain ==
    /\ srv_kinds = <<>>
    /\ faults = 0
    /\ sj_secret_key = None
    /\ main_pc = "idle"
    /\ lang = 0
    /\ statistics_hh = <<>>
    /\ statistics_sj = <<>>
    /\ printed = <<>>
    /\ fetches = <<>>

\* vacancies.extend(...)
Extend(acc, items) == acc \o items

\* The loop condition off by one.
HHLoopCondition_OffByOne(p, n) == p <= n

\* while page < number_of_pages
HHLoopCondition(p, n) == p < n

\* while more_pages
SJLoopCondition(more) == more

\* The page counter not advanced when a page is left.
AfterBreak_Stay(p) == p

\* break, then page += 1: the page requested after a page is left
AfterBreak(p) == p + 1

\* A connection error leaving the page like an HTTP error does.
AfterContinue_Advance(p) == p + 1

\* continue: the page requested after a connection error
AfterContinue(p) == p

\* logger.info(...); requests.get(...): one request for the current page,
\* answered by resp.
Request(prov, resp) ==
    /\ provider = prov
    /\ pc = "request"
    /\ Len(requests) < MaxRequests
    /\ requests' = Append(requests, [page |-> page, response |-> resp])

FetchFrame == <<fn, salary_from, salary_to, vacancy, predicted,
                predict_salaries, statistics, provider, srv_pages,
                srv_page_size, MainVars>>

\* A 2xx answer with a well-formed body.
HHPageOk ==
    /\ Request("hh", "ok")
    /\ vacancies' = Extend(vacancies, HHBody(page).items)
    /\ number_of_pages' = HHBody(page).pages
    /\ page' = AfterBreak(page)
    /\ pc' = IF HHLoopCondition(page', number_of_pages')
             THEN "request" ELSE "returned"
    /\ UNCHANGED <<more_pages, raised, FetchFrame>>

\* An HTTP error retried like a connection error.
HHHttpError_Retry ==
    /\ Request("hh", "HTTPError")
    /\ pc' = "request"
    /\ UNCHANGED <<page, vacancies, number_of_pages, more_pages, raised,
                   FetchFrame>>

\* raise_for_status() raises HTTPError: warning, break.
HHHttpError ==
    /\ Request("hh", "HTTPError")
    /\ page' = AfterBreak(page)
    /\ pc' = IF HHLoopCondition(page', number_of_pages)
             THEN "request" ELSE "returned"
    /\ UNCHANGED <<vacancies, number_of_pages, more_pages, raised, FetchFrame>>

\* requests.get() raises ConnectionError: warning, sleep, continue.
HHConnectionError ==
    /\ Request("hh", "ConnectionError")
    /\ page' = AfterContinue(page)
    /\ pc' = "request"
    /\ UNCHANGED <<vacancies, number_of_pages, more_pages, raised, FetchFrame>>

\* A 2xx answer whose body is not JSON: json() raises, no handler catches.
HHBadJson ==
    /\ Request("hh", "bad_json")
    /\ pc' = "raised"
    /\ raised' = "JSONDecodeError"
    /\ UNCHANGED <<page, vacancies, number_of_pages, more_pages, FetchFrame>>

\* A 2xx JSON answer without 'items': KeyError before anything is appended.
HHMissingItems ==
    /\ Request("hh", "missing_items")
    /\ pc' = "raised"
    /\ raised' = "KeyError"
    /\ UNCHANGED <<page, vacancies, number_of_pages, more_pages, FetchFrame>>

\* A 2xx JSON answer without 'pages': the items are appended, then KeyError.
HHMissingPages ==
    /\ Request("hh", "missing_pages")
    /\ vacancies' = Extend(vacancies, HHBody(page).items)
    /\ pc' = "raised"
    /\ raised' = "KeyError"
    /\ UNCHANGED <<page, number_of_pages, more_pages, FetchFrame>>

SJPageOk ==
    /\ Request("sj", "ok")
    /\ vacancies' = Extend(vacancies, SJBody(page).objects)
    /\ more_pages' = SJBody(page).more
    /\ page' = AfterBreak(page)
    /\ pc' = IF SJLoopCondition(more_pages') THEN "request" ELSE "returned"
    /\ UNCHANGED <<number_of_pages, raised, FetchFrame>>

SJHttpError ==
    /\ Request("sj", "HTTPError")
    /\ page' = AfterBreak(page)
    /\ pc' = IF SJLoopCondition(more_pages) THEN "request" ELSE "returned"
    /\ UNCHANGED <<vacancies, number_of_pages, more_pages, raised, FetchFrame>>

SJConnectionError ==
    /\ Request("sj", "ConnectionError")
    /\ page' = AfterContinue(page)
    /\ pc' = "request"
    /\ UNCHANGED <<vacancies, number_of_pages, more_pages, raised, FetchFrame>>

SJBadJson ==
    /\ Request("sj", "bad_json")
    /\ pc' = "raised"
    /\ raised' = "JSONDecodeError"
    /\ UNCHANGED <<page, vacancies, number_of_pages, more_pages, FetchFrame>>

\* A 2xx JSON answer without 'objects'.
SJMissingObjects ==
    /\ Request("sj", "missing_items")
    /\ pc' = "raised"
    /\ raised' = "KeyError"
    /\ UNCHANGED <<page, vacancies, number_of_pages, more_pages, FetchFrame>>

\* A 2xx JSON answer without 'more'.
SJMissingMore ==
    /\ Request("sj", "missing_pages")
    /\ vacancies' = Extend(vacancies, SJBody(page).objects)
    /\ pc' = "raised"
    /\ raised' = "KeyError"
    /\ UNCHANGED <<page, number_of_pages, more_pages, FetchFrame>>

\* The state at the first test of the loop condition: page = 0,
\* number_of_pages = 1, more_pages = True, vacancies = [].
FetchInit ==
    /\ NoMain
    /\ provider \in {"hh", "sj"}
    /\ fn = IF provider = "hh" THEN "download_vacancies_hh"
            ELSE "download_vacancies_sj"
    /\ srv_pages \in 0..MaxPages
    /\ srv_page_size \in 0..MaxPageSize
    /\ page = 0
    /\ number_of_pages = 1
    /\ more_pages = TRUE
    /\ vacancies = <<>>
    /\ requests = <<>>
    /\ pc = "request"
    /\ raised = "none"
    /\ salary_from = None
    /\ salary_to = None
    /\ vacancy = None
    /\ predicted = None
    /\ predict_salaries = <<>>
    /\ statistics = [exc |-> "none", row |-> NoRow]

Init == FetchInit

Next ==
    \/ HHPageOk
    \/ HHHttpError
    \/ HHConnectionError
    \/ HHBadJson
    \/ HHMissingItems
    \/ HHMissingPages
    \/ SJPageOk
    \/ SJHttpError
    \/ SJConnectionError
    \/ SJBadJson
    \/ SJMissingObjects
    \/ SJMissingMore

Spec == Init /\ [][Next]_vars

\* The loop runs on: a request that is due is eventually issued.
FairSpec == Spec /\ WF_vars(Next)

(***************************************************************************)
(* The estimator as a pure function: one call of predict_salary or of a    *)
(* wrapper, on arguments drawn from the sets below.                        *)
(***************************************************************************)
SalaryValues == (0..MaxSalary) \cup {100, 200}
SalaryBounds == {None} \cup {Some(n) : n \in SalaryValues}
Currencies == {HH_RUBLE, SJ_RUBLE, "USD"}

HHSalaries ==
    {None} \cup {Some([currency |-> c, from |-> f, to |-> t]) :
                    c \in Currencies, f \in SalaryBounds, t \in SalaryBounds}
HHVacancies == {None} \cup {Some([salary |-> s]) : s \in HHSalaries}
SJVacancies ==
    {None} \cup {Some([currency |-> c, payment_from |-> f, payment_to |-> t]) :
                    c \in Currencies, f \in SalaryBounds, t \in SalaryBounds}

\* The variables of the fetch, which no estimator or aggregation call reads.
NoFetch ==
    /\ provider = "none"
    /\ srv_pages = 0
    /\ srv_page_size = 0
    /\ page = 0
    /\ number_of_pages = 1
    /\ more_pages = TRUE
    /\ requests = <<>>
    /\ raised = "none"

EstimateInit ==
    /\ NoFetch
    /\ NoMain
    /\ pc = "call"
    /\ predicted = None
    /\ vacancies = <<>>
    /\ predict_salaries = <<>>
    /\ statistics = [exc |-> "none", row |-> NoRow]
    /\ \/ /\ fn = "predict_salary"
          /\ salary_from \in SalaryBounds
          /\ salary_to \in SalaryBounds
          /\ vacancy = None
       \/ /\ fn = "predict_rub_salary_hh"
          /\ vacancy \in HHVacancies
          /\ salary_from = None
          /\ salary_to = None
       \/ /\ fn = "predict_rub_salary_sj"
          /\ vacancy \in SJVacancies
          /\ salary_from = None
          /\ salary_to = None

EstimateFrame == <<fn, salary_from, salary_to, vacancy, predict_salaries,
                   statistics, provider, page, number_of_pages, more_pages,
                   vacancies, raised, requests, srv_pages, srv_page_size,
                   MainVars>>

PredictSalary ==
    /\ fn = "predict_salary"
    /\ pc = "call"
    /\ predicted' = predict_salary(salary_from, salary_to)
    /\ pc' = "returned"
    /\ UNCHANGED EstimateFrame

PredictRubSalaryHH ==
    /\ fn = "predict_rub_salary_hh"
    /\ pc = "call"
    /\ predicted' = predict_rub_salary_hh(vacancy)
    /\ pc' = "returned"
    /\ UNCHANGED EstimateFrame

PredictRubSalarySJ ==
    /\ fn = "predict_rub_salary_sj"
    /\ pc = "call"
    /\ predicted' = predict_rub_salary_sj(vacancy)
    /\ pc' = "returned"
    /\ UNCHANGED EstimateFrame

EstimateNext == PredictSalary \/ PredictRubSalaryHH \/ PredictRubSalarySJ

SpecEstimate == EstimateInit /\ [][EstimateNext]_vars

(***************************************************************************)
(* get_statistics as a pure function: one call on a vacancy list and an    *)
(* estimate list of the same length, as main builds them.                  *)
(***************************************************************************)
EstimateValues == {0, 1, 2, 1000, 2000}
Estimates == {None} \cup {Some(n) : n \in EstimateValues}
Language == "Go"

StatsInit ==
    /\ NoFetch
    /\ NoMain
    /\ fn = "get_statistics"
    /\ pc = "call"
    /\ \E n \in 0..MaxLen :
          /\ vacancies = [i \in 1..n |-> <<0, i>>]
          /\ predict_salaries \in [1..n -> Estimates]
    /\ statistics = [exc |-> "none", row |-> NoRow]
    /\ salary_from = None
    /\ salary_to = None
    /\ vacancy = None
    /\ predicted = None

GetStatistics ==
    /\ fn = "get_statistics"
    /\ pc = "call"
    /\ statistics' = get_statistics(Language, vacancies, predict_salaries)
    /\ pc' = IF statistics'.exc = "none" THEN "returned" ELSE "raised"
    /\ raised' = statistics'.exc
    /\ UNCHANGED <<fn, salary_from, salary_to, vacancy, predicted,
                   predict_salaries, provider, page, number_of_pages,
                   more_pages, vacancies, requests, srv_pages, srv_page_size,
                   MainVars>>

StatsNext == GetStatistics

SpecStats == StatsInit /\ [][StatsNext]_vars

(***************************************************************************)
(* Claims about the estimator (SpecEstimate).                              *)
(***************************************************************************)
\* A bound as the table of the specification reads it: absent, or a
\* positive integer.
AbsentOrPositive(b) == b = None \/ b[1] > 0

\* The table's estimate for bounds lo, hi, with truncation stated by
\* inequalities: e = trunc(lo * 1.2) is 5e <= 6 lo < 5(e + 1).
MatchesTable(lo, hi, e) ==
    /\ (lo /= None /\ hi /= None) =>
          e /= None /\ 2 * e[1] <= lo[1] + hi[1] /\ lo[1] + hi[1] < 2 * (e[1] + 1)
    /\ (lo /= None /\ hi = None) =>
          e /= None /\ 5 * e[1] <= 6 * lo[1] /\ 6 * lo[1] < 5 * (e[1] + 1)
    /\ (lo = None /\ hi /= None) =>
          e /= None /\ 5 * e[1] <= 4 * hi[1] /\ 4 * hi[1] < 5 * (e[1] + 1)
    /\ (lo = None /\ hi = None) => e = None

\* C1: for bounds that are each absent or a positive integer, predict_salary
\* returns the estimate of the four-case table: the truncated midpoint, the
\* lower bound times 1.2 truncated, the upper bound times 0.8 truncated, or
\* absent; 100,200 gives 150, 100,None gives 120, None,200 gives 160.
C1_PredictSalaryTable ==
    (fn = "predict_salary" /\ pc = "returned"
        /\ AbsentOrPositive(salary_from) /\ AbsentOrPositive(salary_to)) =>
    /\ MatchesTable(salary_from, salary_to, predicted)
    /\ (salary_from = Some(100) /\ salary_to = Some(200)) => predicted = Some(150)
    /\ (salary_from = Some(100) /\ salary_to = None) => predicted = Some(120)
    /\ (salary_from = None /\ salary_to = Some(200)) => predicted = Some(160)

C1_Witness ==
    /\ fn = "predict_salary"
    /\ pc = "returned"
    /\ salary_from = Some(3)
    /\ salary_to = None
    /\ predicted = Some(3)

\* What the claim reads in a vacancy: whether the wrapper's filter rejects
\* it, and its two bounds.
Rejected(v) ==
    IF fn = "predict_rub_salary_hh"
    THEN v = None \/ v[1].salary = None \/ v[1].salary[1].currency /= "RUR"
    ELSE v = None \/ v[1].currency /= "rub"
LowerBound(v) ==
    IF fn = "predict_rub_salary_hh" THEN v[1].salary[1].from
    ELSE v[1].payment_from
UpperBound(v) ==
    IF fn = "predict_rub_salary_hh" THEN v[1].salary[1].to
    ELSE v[1].payment_to

\* C2: for both wrappers, a vacancy whose currency is not the provider's
\* ruble literal ('RUR' for provider A, 'rub' for provider B) or whose salary
\* sub-structure is absent yields absent whatever its bounds are; for every
\* other vacancy the result is predict_salary of its two bounds.
C2_WrapperFilter ==
    (fn \in {"predict_rub_salary_hh", "predict_rub_salary_sj"}
        /\ pc = "returned") =>
    IF Rejected(vacancy)
    THEN predicted = None
    ELSE predicted = predict_salary(LowerBound(vacancy), UpperBound(vacancy))

C2_Witness ==
    /\ fn = "predict_rub_salary_sj"
    /\ pc = "returned"
    /\ vacancy = Some([currency |-> "RUR", payment_from |-> Some(100),
                       payment_to |-> Some(200)])
    /\ predicted = None

(***************************************************************************)
(* Claims about get_statistics (SpecStats).                                *)
(***************************************************************************)
\* The estimates that are not absent, in order.
RECURSIVE NonAbsent(_)
NonAbsent(s) ==
    IF s = <<>> THEN <<>>
    ELSE IF Head(s) /= None THEN <<Head(s)[1]>> \o NonAbsent(Tail(s))
         ELSE NonAbsent(Tail(s))

\* C3: for estimates that are each absent or a non-negative integer, at
\* least one of them not absent, get_statistics returns found = the length
\* of the vacancy list, processed = the number of non-absent estimates and
\* average_salary = the truncated mean of the non-absent estimates.
C3_Statistics ==
    (fn = "get_statistics" /\ pc /= "call"
        /\ NonAbsent(predict_salaries) /= <<>>) =>
    /\ statistics.exc = "none"
    /\ statistics.row =
          <<Language, Len(vacancies), Len(NonAbsent(predict_salaries)),
            SumSeq(NonAbsent(predict_salaries))
                \div Len(NonAbsent(predict_salaries))>>

\* C4: when every estimate is absent (the empty list included),
\* get_statistics returns a row with processed = 0 and does not end in a
\* division by zero.
C4_DegenerateAggregation ==
    (fn = "get_statistics" /\ pc /= "call"
        /\ NonAbsent(predict_salaries) = <<>>) =>
    /\ statistics.exc = "none"
    /\ statistics.row[3] = 0

(***************************************************************************)
(* Claims about the fetch loops (Spec, FairSpec).                          *)
(***************************************************************************)
Fetching == fn \in {"download_vacancies_hh", "download_vacancies_sj"}

NumRequests == Len(requests)
Answer(i) == requests[i].response
PageOf(i) == requests[i].page

\* No request so far failed or was answered with a malformed body.
AllOk == \A i \in 1..NumRequests : Answer(i) = "ok"

\* How often an item occurs in the accumulator.
Occurrences(item) ==
    Cardinality({k \in 1..Len(vacancies) : vacancies[k] = item})

\* The items of the page p occur in the accumulator exactly once each.
IncludedOnce(p) ==
    \A k \in 1..Len(PageItems(p)) : Occurrences(PageItems(p)[k]) = 1

\* The items of the pages 0..last, in order.
RECURSIVE PagesThrough(_)
PagesThrough(last) ==
    IF last < 0 THEN <<>> ELSE PagesThrough(last - 1) \o PageItems(last)

\* Provider B: the first page that answers more = false.
FirstWithoutMore ==
    CHOOSE p \in 0..MaxPages :
        /\ ~SJBody(p).more
        /\ \A q \in 0..(p - 1) : SJBody(q).more

\* With every request answered well: provider A's loop has returned exactly
\* when its page counter has reached the declared page count, provider B's
\* exactly when an answer said more = false, and that answer was the last.
C5_StopsAtDeclaredEnd ==
    (Fetching /\ AllOk /\ NumRequests > 0) =>
    IF provider = "hh"
    THEN (pc = "returned") <=> (page >= HHBody(PageOf(NumRequests)).pages)
    ELSE /\ (pc = "returned") <=> ~SJBody(PageOf(NumRequests)).more
         /\ \A i \in 1..(NumRequests - 1) : SJBody(PageOf(i)).more

\* C5: when every page request succeeds, the provider A loop terminates once
\* the page counter reaches the page count the responses declare, and the
\* provider B loop after the first response with more = false, also when
\* every page holds no items: the fetch stops exactly there, and it does
\* stop.
C5_PaginationTerminates ==
    /\ []C5_StopsAtDeclaredEnd
    /\ <>(pc /= "request" \/ ~AllOk)

C5_Witness ==
    /\ provider = "hh"
    /\ pc = "returned"
    /\ AllOk
    /\ srv_page_size = 0
    /\ srv_pages = 3
    /\ NumRequests = 3

\* C6: when no request fails, the list a fetch returns is the in-order
\* concatenation of the items of the pages 0..last, each page requested and
\* appended exactly once; last is P-1 for provider A declaring P >= 1 pages,
\* and the first page answering more = false for provider B.
C6_FetchComplete ==
    (Fetching /\ AllOk /\ pc = "returned"
        /\ (provider = "hh" => srv_pages >= 1)) =>
    LET last == IF provider = "hh" THEN srv_pages - 1 ELSE FirstWithoutMore
    IN  /\ vacancies = PagesThrough(last)
        /\ NumRequests = last + 1
        /\ \A i \in 1..NumRequests : PageOf(i) = i - 1
        /\ \A p \in 0..last : IncludedOnce(p)

C6_Witness ==
    /\ provider = "sj"
    /\ pc = "returned"
    /\ AllOk
    /\ srv_pages = 3
    /\ srv_page_size = 2
    /\ vacancies = <<<<0, 1>>, <<0, 2>>, <<1, 1>>, <<1, 2>>, <<2, 1>>, <<2, 2>>>>

\* The requests i..j are N = j - i connection failures in a row followed by
\* a success, and no connection failure precedes them.
FailuresThenSuccess(i, j) ==
    /\ i = 1 \/ Answer(i - 1) /= "ConnectionError"
    /\ \A k \in i..(j - 1) : Answer(k) = "ConnectionError"
    /\ Answer(j) = "ok"

\* Such requests are all for one page, the requests before and after them
\* are for other pages, and the page's items are in the accumulator once.
C7_SamePageOnce ==
    \A i \in 1..NumRequests : \A j \in i..NumRequests :
        FailuresThenSuccess(i, j) =>
            /\ \A k \in i..j : PageOf(k) = PageOf(i)
            /\ i > 1 => PageOf(i - 1) /= PageOf(i)
            /\ j < NumRequests => PageOf(j + 1) /= PageOf(i)
            /\ IncludedOnce(PageOf(i))

\* A step in which the request failed with a connection error.
ConnectionErrorStep ==
    /\ Len(requests') = NumRequests + 1
    /\ requests'[NumRequests + 1].response = "ConnectionError"

\* C7: if the request for a page fails with a connection error N times in a
\* row and then succeeds, the page is requested exactly N+1 times in a row
\* with no other page in between, the failed attempts leave the page counter
\* and the accumulator unchanged, and the page's items are in the result
\* exactly once.
C7_ConnectionRetry ==
    /\ []C7_SamePageOnce
    /\ [][ConnectionErrorStep =>
            /\ page' = page
            /\ vacancies' = vacancies
            /\ pc' = "request"]_vars

C7_Witness ==
    /\ provider = "hh"
    /\ pc = "returned"
    /\ srv_pages = 3
    /\ srv_page_size = 2
    /\ NumRequests = 5
    /\ <<Answer(1), Answer(2), Answer(3), Answer(4), Answer(5)>> =
          <<"ok", "ConnectionError", "ConnectionError", "ok", "ok">>
    /\ <<PageOf(2), PageOf(3), PageOf(4)>> = <<1, 1, 1>>
    /\ IncludedOnce(1)

\* A step in which the request was answered with an HTTP error status.
HttpErrorStep ==
    /\ Len(requests') = NumRequests + 1
    /\ requests'[NumRequests + 1].response = "HTTPError"

\* C8: a page request answered with an HTTP error status appends nothing,
\* leaves the page count and the more-pages flag as they were, is not
\* retried, and advances the page counter by one: the next request, if any,
\* is for the next page.
C8_HttpErrorSkip ==
    /\ [][HttpErrorStep =>
            /\ vacancies' = vacancies
            /\ number_of_pages' = number_of_pages
            /\ more_pages' = more_pages
            /\ page' = page + 1]_vars
    /\ [](\A i \in 1..(NumRequests - 1) :
            Answer(i) = "HTTPError" => PageOf(i + 1) = PageOf(i) + 1)

C8_Witness ==
    /\ provider = "hh"
    /\ srv_pages = 3
    /\ srv_page_size = 2
    /\ NumRequests = 3
    /\ <<Answer(1), Answer(2), Answer(3)>> = <<"ok", "HTTPError", "ok">>
    /\ <<PageOf(1), PageOf(2), PageOf(3)>> = <<0, 1, 2>>
    /\ vacancies = <<<<0, 1>>, <<0, 2>>, <<2, 1>>, <<2, 2>>>>
    /\ pc = "returned"

\* C9: an HTTP error status on a page does not halt the fetch: if only the
\* page p (the first page included) answers with an HTTP error and the
\* provider holds further pages after p, those pages are requested and their
\* items returned.
C9_HttpErrorDoesNotHalt ==
    \A i \in 1..NumRequests :
        (/\ Fetching
         /\ pc = "returned"
         /\ Answer(i) = "HTTPError"
         /\ \A k \in (1..NumRequests) \ {i} : Answer(k) = "ok") =>
        \A q \in (PageOf(i) + 1)..(srv_pages - 1) :
            /\ \E k \in 1..NumRequests : PageOf(k) = q /\ Answer(k) = "ok"
            /\ IncludedOnce(q)

\* The answers that are a 2xx response with a malformed body.
Malformed == {"bad_json", "missing_items", "missing_pages"}

\* C10: a malformed body on a 2xx response is a recoverable failure: the
\* page is left without any of its items appended and the fetch goes on to
\* the next page instead of aborting with an exception.
C10_MalformedBodyRecoverable ==
    \A i \in 1..NumRequests :
        Answer(i) \in Malformed =>
            /\ pc /= "raised"
            /\ \A k \in 1..Len(PageItems(PageOf(i))) :
                  Occurrences(PageItems(PageOf(i))[k]) = 0

\* The requests whose answer had its items appended to the accumulator.
Appended(i) == Answer(i) \in {"ok", "missing_pages"}

\* The page indices requested so far never decrease and grow by one between
\* distinct pages; the pages whose items were appended are strictly
\* increasing; no item is in the accumulator twice.
C16_PagesInOrder ==
    /\ \A i \in 1..(NumRequests - 1) :
          PageOf(i + 1) = PageOf(i) \/ PageOf(i + 1) = PageOf(i) + 1
    /\ \A i \in 1..NumRequests : \A j \in (i + 1)..NumRequests :
          (Appended(i) /\ Appended(j)) => PageOf(i) < PageOf(j)
    /\ \A k \in 1..Len(vacancies) : Occurrences(vacancies[k]) = 1

\* C16: within one fetch, under any sequence of successes, HTTP errors and
\* connection failures, the requested page index never decreases and grows
\* by exactly one between distinct pages, and the pages whose items are
\* appended are strictly increasing, so that no page's items are appended
\* twice.
C16_PageOrder ==
    /\ []C16_PagesInOrder
    /\ [][page' = page \/ page' = page + 1]_vars

C16_Witness ==
    /\ provider = "sj"
    /\ pc = "returned"
    /\ srv_pages = 3
    /\ srv_page_size = 2
    /\ NumRequests = 4
    /\ <<Answer(1), Answer(2), Answer(3), Answer(4)>> =
          <<"ok", "HTTPError", "ConnectionError", "ok">>
    /\ <<PageOf(1), PageOf(2), PageOf(3), PageOf(4)>> = <<0, 1, 2, 2>>
    /\ vacancies = <<<<0, 1>>, <<0, 2>>, <<2, 1>>, <<2, 2>>>>

\* A bound of 0 read as an absent bound.
ZeroAsAbsent(b) == IF b = Some(0) THEN None ELSE b

\* C18: predict_salary decides the presence of a bound by truthiness: a
\* bound of 0 is handled like an absent one, so predict_salary(0, u) is
\* predict_salary(None, u), predict_salary(l, 0) is predict_salary(l, None)
\* and predict_salary(0, 0) is absent.
C18_ZeroIsAbsent ==
    (fn = "predict_salary" /\ pc = "returned") =>
    /\ MatchesTable(ZeroAsAbsent(salary_from), ZeroAsAbsent(salary_to),
                    predicted)
    /\ salary_from = Some(0) => predicted = predict_salary(None, salary_to)
    /\ salary_to = Some(0) => predicted = predict_salary(salary_from, None)
    /\ (salary_from = Some(0) /\ salary_to = Some(0)) => predicted = None

C18_Witness ==
    /\ fn = "predict_salary"
    /\ pc = "returned"
    /\ salary_from = Some(0)
    /\ salary_to = Some(5)
    /\ predicted = Some(4)

(***************************************************************************)
(* The fetch loops followed without end, for termination.  No history of   *)
(* the requests is kept and the HTTP errors are not limited; the           *)
(* connection failures of a run are finitely many (at most                 *)
(* MaxConnFailures).  A page index past MaxPages is past the last page of  *)
(* every provider of the model, and all such pages are answered alike and  *)
(* tested alike by the loop conditions (number_of_pages <= MaxPages), so   *)
(* they are kept as two alternating indices, MaxPages + 1 and              *)
(* MaxPages + 2.                                                           *)
(***************************************************************************)
Followed(p) == IF p > MaxPages + 2 THEN MaxPages + 1 ELSE p

LoopFrame == <<fn, salary_from, salary_to, vacancy, predicted,
               predict_salaries, statistics, provider, srv_pages,
               srv_page_size, raised, requests, srv_kinds, sj_secret_key,
               main_pc, lang, statistics_hh, statistics_sj, printed, fetches>>

LoopHHPageOk ==
    /\ provider = "hh"
    /\ pc = "request"
    /\ vacancies' = Extend(vacancies, HHBody(page).items)
    /\ number_of_pages' = HHBody(page).pages
    /\ page' = Followed(AfterBreak(page))
    /\ pc' = IF HHLoopCondition(AfterBreak(page), number_of_pages')
             THEN "request" ELSE "returned"
    /\ UNCHANGED <<more_pages, faults, LoopFrame>>

LoopHHHttpError ==
    /\ provider = "hh"
    /\ pc = "request"
    /\ page' = Followed(AfterBreak(page))
    /\ pc' = IF HHLoopCondition(AfterBreak(page), number_of_pages)
             THEN "request" ELSE "returned"
    /\ UNCHANGED <<vacancies, number_of_pages, more_pages, faults, LoopFrame>>

LoopHHConnectionError ==
    /\ provider = "hh"
    /\ pc = "request"
    /\ faults < MaxConnFailures
    /\ faults' = faults + 1
    /\ page' = AfterContinue(page)
    /\ pc' = "request"
    /\ UNCHANGED <<vacancies, number_of_pages, more_pages, LoopFrame>>

LoopSJPageOk ==
    /\ provider = "sj"
    /\ pc = "request"
    /\ vacancies' = Extend(vacancies, SJBody(page).objects)
    /\ more_pages' = SJBody(page).more
    /\ page' = Followed(AfterBreak(page))
    /\ pc' = IF SJLoopCondition(more_pages') THEN "request" ELSE "returned"
    /\ UNCHANGED <<number_of_pages, faults, LoopFrame>>

LoopSJHttpError ==
    /\ provider = "sj"
    /\ pc = "request"
    /\ page' = Followed(AfterBreak(page))
    /\ pc' = IF SJLoopCondition(more_pages) THEN "request" ELSE "returned"
    /\ UNCHANGED <<vacancies, number_of_pages, more_pages, faults, LoopFrame>>

LoopSJConnectionError ==
    /\ provider = "sj"
    /\ pc = "request"
    /\ faults < MaxConnFailures
    /\ faults' = faults + 1
    /\ page' = AfterContinue(page)
    /\ pc' = "request"
    /\ UNCHANGED <<vacancies, number_of_pages, more_pages, LoopFrame>>

LoopNext ==
    \/ LoopHHPageOk
    \/ LoopHHHttpError
    \/ LoopHHConnectionError
    \/ LoopSJPageOk
    \/ LoopSJHttpError
    \/ LoopSJConnectionError

\* The loops run without external scheduling: a due request is issued.
SpecLoop == FetchInit /\ [][LoopNext]_vars /\ WF_vars(LoopNext)

\* C12: the only way a fetch fails to terminate is a persistently failing
\* connection: in every execution with finitely many connection failures,
\* HTTP error statuses occurring on any page any number of times, the fetch
\* loop eventually returns.
C12_FetchReturns == <>(pc = "returned")

(***************************************************************************)
(* main.  The language list is followed for its first NumLanguages         *)
(* entries.  The header's four captions are given in English.  Both        *)
(* providers hold, for every language, srv_pages pages of srv_page_size    *)
(* items; the item <<p, i>> is a vacancy of the kind srv_kinds[i].  At     *)
(* most MaxFaults requests of a run fail.                                  *)
(***************************************************************************)
AllLanguages ==
    <<"Python", "C++", "C#", "Go", "Java", "JavaScript", "PHP", "Ruby">>
languages == SubSeq(AllLanguages, 1, NumLanguages)
table_cap ==
    <<"language", "vacancies found", "vacancies processed", "average salary">>

\* The kinds of vacancy the providers hold: a ruble range, a ruble lower
\* bound alone, a range in another currency, a ruble upper bound of 1.
Kinds == {"range", "lower", "foreign", "low"}

\* The salary fields of a vacancy of a kind: currency is a flag (ruble or
\* not), the bounds are None or an integer.
KindFields(kind) ==
    CASE kind = "range" -> [ruble |-> TRUE, lo |-> Some(100), hi |-> Some(200)]
      [] kind = "lower" -> [ruble |-> TRUE, lo |-> Some(100), hi |-> None]
      [] kind = "foreign" -> [ruble |-> FALSE, lo |-> Some(100), hi |-> Some(200)]
      [] kind = "low" -> [ruble |-> TRUE, lo |-> None, hi |-> Some(1)]

\* The record a provider returns for an item.
VacancyOf(prov, item) ==
    LET f == KindFields(srv_kinds[item[2]])
    IN  IF prov = "hh"
        THEN Some([salary |-> Some([currency |-> IF f.ruble THEN "RUR" ELSE "USD",
                                    from |-> f.lo, to |-> f.hi])])
        ELSE Some([currency |-> IF f.ruble THEN "rub" ELSE "usd",
                   payment_from |-> f.lo, payment_to |-> f.hi])

\* [predict_rub_salary_hh(x) for x in vacancies_hh], and its provider B twin
PredictAll(prov, vacs) ==
    [i \in 1..Len(vacs) |->
        IF prov = "hh" THEN predict_rub_salary_hh(VacancyOf(prov, vacs[i]))
        ELSE predict_rub_salary_sj(VacancyOf(prov, vacs[i]))]

\* The key read with os.environ.get: no exception when it is not set.
EnvironLookup_Get(key) == "none"

\* os.environ['SJ_SECRET_KEY']
EnvironLookup(key) == IF key = None THEN "KeyError" ELSE "none"

\* The row inserted at the head of the table.
AppendRow_Front(table, row) == <<row>> \o table

\* statistics_hh.append(row)
AppendRow(table, row) == Append(table, row)

\* The requests of the current fetch that failed.
FaultsIn(reqs) ==
    Cardinality({i \in 1..Len(reqs) : reqs[i].response /= "ok"})

MainInit ==
    /\ main_pc = "start"
    /\ fn = "main"
    /\ pc = "call"
    /\ sj_secret_key \in {None, Some("secret")}
    /\ srv_pages \in 0..MaxPages
    /\ srv_page_size \in 0..MaxPageSize
    /\ srv_kinds \in [1..srv_page_size -> Kinds]
    /\ faults = 0
    /\ lang = 0
    /\ statistics_hh = <<>>
    /\ statistics_sj = <<>>
    /\ printed = <<>>
    /\ fetches = <<>>
    /\ provider = "none"
    /\ page = 0
    /\ number_of_pages = 1
    /\ more_pages = TRUE
    /\ vacancies = <<>>
    /\ requests = <<>>
    /\ raised = "none"
    /\ salary_from = None
    /\ salary_to = None
    /\ vacancy = None
    /\ predicted = None
    /\ predict_salaries = <<>>
    /\ statistics = [exc |-> "none", row |-> NoRow]

\* The call download_vacancies_*(language) up to its first request.
BeginFetch(prov, l) ==
    /\ main_pc' = "fetch"
    /\ lang' = l
    /\ provider' = prov
    /\ fn' = IF prov = "hh" THEN "download_vacancies_hh"
             ELSE "download_vacancies_sj"
    /\ fetches' = Append(fetches, <<prov, languages[l]>>)
    /\ page' = 0
    /\ number_of_pages' = 1
    /\ more_pages' = TRUE
    /\ vacancies' = <<>>
    /\ requests' = <<>>
    /\ pc' = "request"

\* main up to the first request: load_dotenv, the key, the header row.
MainStart ==
    /\ main_pc = "start"
    /\ IF EnvironLookup(sj_secret_key) /= "none"
       THEN /\ main_pc' = "raised"
            /\ raised' = EnvironLookup(sj_secret_key)
            /\ UNCHANGED <<fn, lang, provider, fetches, page, number_of_pages,
                           more_pages, vacancies, requests, pc, statistics_hh>>
       ELSE /\ statistics_hh' = <<table_cap>>
            /\ BeginFetch("hh", 1)
            /\ UNCHANGED raised
    /\ UNCHANGED <<salary_from, salary_to, vacancy, predicted,
                   predict_salaries, statistics, srv_pages, srv_page_size,
                   srv_kinds, faults, sj_secret_key, statistics_sj, printed>>

\* One request of the fetch that main is in.
MainRequest(Attempt) ==
    /\ main_pc = "fetch"
    /\ Attempt
    /\ faults + FaultsIn(requests') <= MaxFaults

\* An exception leaves download_vacancies_* and main.
MainFetchRaised ==
    /\ main_pc = "fetch"
    /\ pc = "raised"
    /\ main_pc' = "raised"
    /\ UNCHANGED <<fn, salary_from, salary_to, vacancy, predicted,
                   predict_salaries, statistics, provider, page,
                   number_of_pages, more_pages, vacancies, pc, raised,
                   requests, srv_pages, srv_page_size, srv_kinds, faults,
                   sj_secret_key, lang, statistics_hh, statistics_sj, printed,
                   fetches>>

\* main from the return of a fetch to the next request or to its end: the
\* estimates, get_statistics, the row, the next language or the table.
MainAfterFetch ==
    /\ main_pc = "fetch"
    /\ pc = "returned"
    /\ predict_salaries' = PredictAll(provider, vacancies)
    /\ statistics' = get_statistics(languages[lang], vacancies,
                                    predict_salaries')
    /\ faults' = faults + FaultsIn(requests)
    /\ IF statistics'.exc /= "none"
       THEN /\ main_pc' = "raised"
            /\ raised' = statistics'.exc
            /\ UNCHANGED <<fn, lang, provider, fetches, page, number_of_pages,
                           more_pages, vacancies, requests, pc, statistics_hh,
                           statistics_sj, printed>>
       ELSE /\ UNCHANGED raised
            /\ statistics_hh' =
                  IF provider = "hh"
                  THEN AppendRow(statistics_hh, statistics'.row)
                  ELSE statistics_hh
            /\ IF lang < Len(languages)
               THEN /\ BeginFetch(provider, lang + 1)
                    /\ statistics_sj' =
                          IF provider = "sj"
                          THEN AppendRow(statistics_sj, statistics'.row)
                          ELSE statistics_sj
                    /\ UNCHANGED printed
               ELSE IF provider = "hh"
               THEN /\ printed' = Append(printed,
                                         [title |-> "HeadHunter Moscow",
                                          table |-> statistics_hh'])
                    /\ statistics_sj' = <<table_cap>>
                    /\ BeginFetch("sj", 1)
               ELSE /\ statistics_sj' = AppendRow(statistics_sj, statistics'.row)
                    /\ printed' = Append(printed,
                                         [title |-> "SuperJob Moscow",
                                          table |-> statistics_sj'])
                    /\ main_pc' = "done"
                    /\ UNCHANGED <<fn, lang, provider, fetches, page,
                                   number_of_pages, more_pages, vacancies,
                                   requests, pc>>
    /\ UNCHANGED <<salary_from, salary_to, vacancy, predicted, srv_pages,
                   srv_page_size, srv_kinds, sj_secret_key>>

MainNext ==
    \/ MainStart
    \/ MainRequest(HHPageOk)
    \/ MainRequest(HHHttpError)
    \/ MainRequest(HHConnectionError)
    \/ MainRequest(HHBadJson)
    \/ MainRequest(HHMissingItems)
    \/ MainRequest(HHMissingPages)
    \/ MainRequest(SJPageOk)
    \/ MainRequest(SJHttpError)
    \/ MainRequest(SJConnectionError)
    \/ MainRequest(SJBadJson)
    \/ MainRequest(SJMissingObjects)
    \/ MainRequest(SJMissingMore)
    \/ MainFetchRaised
    \/ MainAfterFetch

SpecMain == MainInit /\ [][MainNext]_vars

(***************************************************************************)
(* Claims about main (SpecMain).                                           *)
(***************************************************************************)
\* C11: no recoverable failure reaches the report: with the credential
\* present and no failure other than HTTP error statuses and finitely many
\* connection failures (no malformed body, so no exception has left a
\* fetch), main is not aborted by an exception; it goes on to print both
\* tables.
C11_NoAbort ==
    (sj_secret_key /= None /\ pc /= "raised") => main_pc /= "raised"

\* C13: when SJ_SECRET_KEY is not in the environment, main ends with an
\* error before any request to either provider and before any table is
\* printed.
C13_MissingKeyFatal ==
    (main_pc /= "idle" /\ sj_secret_key = None) =>
    /\ main_pc \in {"start", "raised"}
    /\ main_pc = "raised" => raised = "KeyError"
    /\ fetches = <<>>
    /\ requests = <<>>
    /\ printed = <<>>

C13_Witness ==
    /\ sj_secret_key = None
    /\ main_pc = "raised"
    /\ raised = "KeyError"
    /\ requests = <<>>

\* The order in which a complete run calls the fetches.
FetchOrder ==
    [i \in 1..NumLanguages |-> <<"hh", languages[i]>>]
        \o [i \in 1..NumLanguages |-> <<"sj", languages[i]>>]

\* A table under construction: the header, then one row for each of the
\* first languages of the list, in the list's order.
InListOrder(table) ==
    /\ Len(table) <= NumLanguages + 1
    /\ table[1] = table_cap
    /\ \A i \in 2..Len(table) : table[i][1] = languages[i - 1]

\* C14: in each table the first row is the header and the following rows
\* are one per language in the order of the list; the languages are fetched
\* in that order; every provider A fetch completes (and its table is whole)
\* before the first provider B request.
C14_RowOrder ==
    /\ statistics_hh /= <<>> => InListOrder(statistics_hh)
    /\ statistics_sj /= <<>> => InListOrder(statistics_sj)
    /\ \A i \in 1..Len(printed) :
          /\ InListOrder(printed[i].table)
          /\ Len(printed[i].table) = NumLanguages + 1
    /\ Len(fetches) <= Len(FetchOrder)
    /\ \A i \in 1..Len(fetches) : fetches[i] = FetchOrder[i]
    /\ (main_pc /= "idle" /\ provider = "sj") =>
          /\ Len(statistics_hh) = NumLanguages + 1
          /\ printed /= <<>>
          /\ printed[1] = [title |-> "HeadHunter Moscow",
                           table |-> statistics_hh]
    /\ main_pc = "done" =>
          /\ Len(printed) = 2
          /\ printed[2] = [title |-> "SuperJob Moscow", table |-> statistics_sj]

C14_Witness ==
    /\ main_pc = "done"
    /\ Len(printed) = 2
    /\ Len(statistics_hh) = NumLanguages + 1
    /\ Len(statistics_sj) = NumLanguages + 1
    /\ faults > 0

\* What the claim counts in a page: the items with ruble currency and at
\* least one salary bound, and the estimate of each by the table.
Counted(kind) ==
    /\ KindFields(kind).ruble
    /\ KindFields(kind).lo /= None \/ KindFields(kind).hi /= None
TableEstimate(kind) ==
    LET lo == KindFields(kind).lo
        hi == KindFields(kind).hi
    IN  IF lo /= None /\ hi /= None THEN (lo[1] + hi[1]) \div 2
        ELSE IF lo /= None THEN (lo[1] * 12) \div 10
        ELSE (hi[1] * 8) \div 10
RECURSIVE CountedEstimates(_)
CountedEstimates(kinds) ==
    IF kinds = <<>> THEN <<>>
    ELSE IF Counted(Head(kinds))
         THEN <<TableEstimate(Head(kinds))>> \o CountedEstimates(Tail(kinds))
         ELSE CountedEstimates(Tail(kinds))

\* main is about to aggregate a provider A fetch that was one successful
\* page, of a provider declaring one page.
OnePageFetched ==
    /\ main_pc = "fetch"
    /\ pc = "returned"
    /\ provider = "hh"
    /\ srv_pages = 1
    /\ requests = <<[page |-> 0, response |-> "ok"]>>

\* C15: when provider A answers one successful page (pages = 1) of n items
\* for the language L, the provider A row for L is (L, n, k, a): k the number
\* of items with ruble currency and at least one salary bound, a the integer
\* mean of their estimates.
C15_EndToEndRow ==
    [][OnePageFetched =>
        LET e == CountedEstimates(srv_kinds)
            row == statistics_hh'[Len(statistics_hh')]
        IN  /\ main_pc' /= "raised"
            /\ Len(statistics_hh') = Len(statistics_hh) + 1
            /\ row[1] = languages[lang]
            /\ row[2] = srv_page_size
            /\ row[3] = Len(e)
            /\ Len(e) > 0 => row[4] = SumSeq(e) \div Len(e)]_vars

\* C17: every row main has appended to a table has processed <= found.
C17_ProcessedAtMostFound ==
    /\ \A i \in 2..Len(statistics_hh) :
          statistics_hh[i][3] <= statistics_hh[i][2]
    /\ \A i \in 2..Len(statistics_sj) :
          statistics_sj[i][3] <= statistics_sj[i][2]

C17_Witness ==
    /\ Len(statistics_hh) = NumLanguages + 1
    /\ Len(statistics_sj) >= 2
    /\ statistics_hh[2][3] < statistics_hh[2][2]
    /\ statistics_sj[2][3] < statistics_sj[2][2]
    /\ statistics_hh[3][2] < statistics_hh[2][2]

=============================================================================
